---- MODULE Spec2Model ----
(***************************************************************************)
(* The session state of the App component (upload, batch generation of    *)
(* facial expressions, export to a zip archive) as a state machine.       *)
(* Every event-loop task of the browser is one action: a user event, the  *)
(* end of a FileReader read, or the settling of one generateExpression    *)
(* call together with the promise reactions that run in the same          *)
(* microtask checkpoint (the .then callback, the Promise.all join and the *)
(* resumption of handleGenerateExpressions after its await).              *)
(***************************************************************************)
EXTENDS Integers, Sequences, FiniteSets, TLC

\* ---------------------------------------------------------------- bounds
\* Length of the expression catalog used by the model (a prefix of Catalog).
NumExpressions == 2
\* Number of batches that get as far as launching their calls.
MaxBatches == 2
\* Length of the labels and of the image lists drawn for the export run.
MaxLabelLen == 2
MaxExport == 2

\* ------------------------------------------------------------ characters
WhiteSpace == {" ", "\t"}
Parens == {"(", ")"}

\* String.prototype.startsWith on character sequences.
StartsWith(s, p) == Len(s) >= Len(p) /\ SubSeq(s, 1, Len(p)) = p

ImagePrefix == <<"i", "m", "a", "g", "e", "/">>

\* ----------------------------------------------------------------- files
\* A File: its name and its declared media type (a character sequence).
PngFile == [name |-> "hero.png", type |-> ImagePrefix \o <<"p", "n", "g">>]
JpgFile == [name |-> "hero.jpg", type |-> ImagePrefix \o <<"j", "p", "e", "g">>]
TxtFile == [name |-> "notes.txt",
            type |-> <<"t", "e", "x", "t", "/", "p", "l", "a", "i", "n">>]
\* event.target.files?.[0] when the selection is empty.
NoFile == [name |-> "", type |-> <<>>]

Files == {PngFile, JpgFile, TxtFile}

\* reader.result: the data URL "data:<type>;base64,<payload>" as the pair of
\* the parts on either side of its comma, or null (<<>>) when the read failed.
Null == <<>>
FileBytes(file) == <<"bytes of", file.name>>
ReadAsDataURL(file) == << <<"data:", file.type, ";base64">>, FileBytes(file) >>

\* dataUrl.split(',')[1]
PayloadOf(dataUrl) == dataUrl[2]

NoImage == [file |-> NoFile, dataUrl |-> Null]

\* ------------------------------------------------------------- catalog
Catalog ==
  << <<"H", "a", "p", "p", "y">>,
     <<"S", "a", "d">>,
     <<"A", "n", "g", "r", "y">>,
     <<"S", "u", "r", "p", "r", "i", "s", "e", "d">>,
     <<"D", "i", "s", "g", "u", "s", "t", "e", "d">>,
     <<"F", "e", "a", "r", "f", "u", "l">>,
     <<"N", "e", "u", "t", "r", "a", "l">>,
     <<"L", "a", "u", "g", "h", "i", "n", "g">> >>

EXPRESSIONS_TO_GENERATE == SubSeq(Catalog, 1, NumExpressions)

\* EXPRESSIONS_TO_GENERATE.length
totalExpressions == Len(EXPRESSIONS_TO_GENERATE)

\* ------------------------------------------------------------- messages
\* err.message of a rejected generateExpression call.
Messages == {"", "quota exceeded"}
UnknownError == "An unknown error occurred during image generation."
NoError == <<>>

\* err.message || 'An unknown error occurred during image generation.'
ErrorTextDropsMessage(message) == UnknownError
ErrorText(message) == IF message # "" THEN message ELSE UnknownError

\* ---------------------------------------------------------------- state
VARIABLES
  originalImage,      \* useState<OriginalImage | null>
  generatedImages,    \* useState<GeneratedImage[]>
  isLoading,          \* useState(false)
  error,              \* useState<string | null>: <<>> or <<message>>
  progress,           \* useState(0)
  inputFile,          \* the file held by the file input while it is mounted
  reads,              \* the FileReader reads in flight, in the order they
                      \* were started: the file, and (history) whether a
                      \* read started later has ended already
  launched,           \* the number of batches that launched their calls
  batches,            \* the live batches (join pending or calls in flight),
                      \* by number: their closure variables and promises
  caught,             \* history: the err bound by the catch at line 90 whose
                      \* text is in `error`; <<>> while error is null
  download,           \* the archive last offered as character_expressions.zip
  progressMonotone    \* history: the setProgress values seen since the last
                      \* batch started were strictly increasing from > 0

vars == <<originalImage, generatedImages, isLoading, error, progress,
          inputFile, reads, launched, batches, caught, download,
          progressMonotone>>

\* ------------------------------------------------------------ batches
\* The state of the Promise.all promise awaited at line 88.
JoinPending == "pending"
JoinFulfilled == "fulfilled"
JoinRejected == "rejected"

Indices == 1..totalExpressions

\* Math.round((completedCount / totalExpressions) * 100): Math.round rounds
\* halves up.
RoundedProgressOffByOne(completedCount, total) ==
  (200 * (completedCount + 1) + total) \div (2 * total)
RoundedProgress(completedCount, total) ==
  (200 * completedCount + total) \div (2 * total)

\* The value a generateExpression call resolves with: the service's answer
\* to the request (image, media type, label) of call i of batch b.
GenerateExpression(b, i) ==
  [batch |-> b,
   request |-> <<batches[b].base64Data, batches[b].mimeType,
                 EXPRESSIONS_TO_GENERATE[i]>>]

\* `data:image/png;base64,${newBase64}`
PngDataUrl(newBase64) == <<"data:image/png;base64", newBase64>>

\* The value of the promise returned by .then for the i-th catalog entry.
ThenResultNextLabel(b, i) ==
  [expression |-> EXPRESSIONS_TO_GENERATE[(i % totalExpressions) + 1],
   base64 |-> PngDataUrl(GenerateExpression(b, i))]
ThenResult(b, i) ==
  [expression |-> EXPRESSIONS_TO_GENERATE[i],
   base64 |-> PngDataUrl(GenerateExpression(b, i))]

\* The array Promise.all resolves with: the values in the order of the
\* promises passed to it.
PromiseAllResults(b) == [i \in Indices |-> ThenResult(b, i)]

\* ------------------------------------------------------------ archive
\* img.expression.replace(/[\(\)]/g, '')
RECURSIVE RemoveParens(_)
RemoveParens(s) ==
  IF s = <<>> THEN <<>>
  ELSE IF Head(s) \in Parens THEN RemoveParens(Tail(s))
       ELSE <<Head(s)>> \o RemoveParens(Tail(s))

\* .replace(/\s+/g, '_'): every maximal run of white space becomes one "_".
RECURSIVE ReplaceEachWhiteSpace(_)
ReplaceEachWhiteSpace(s) ==
  IF s = <<>> THEN <<>>
  ELSE IF Head(s) \in WhiteSpace
       THEN <<"_">> \o ReplaceEachWhiteSpace(Tail(s))
       ELSE <<Head(s)>> \o ReplaceEachWhiteSpace(Tail(s))
RECURSIVE ReplaceWhiteSpace(_)
ReplaceWhiteSpace(s) ==
  IF s = <<>> THEN <<>>
  ELSE IF Head(s) \in WhiteSpace
       THEN IF Len(s) > 1 /\ s[2] \in WhiteSpace
            THEN ReplaceWhiteSpace(Tail(s))
            ELSE <<"_">> \o ReplaceWhiteSpace(Tail(s))
       ELSE <<Head(s)>> \o ReplaceWhiteSpace(Tail(s))

\* `${...}.png`
FileName(expression) ==
  ReplaceWhiteSpace(RemoveParens(expression)) \o <<".", "p", "n", "g">>

\* zip.file(fileName, base64Data, { base64: true }): an entry of the same
\* name is replaced.
ZipFile(zip, fileName, data) ==
  {e \in zip : e.name # fileName} \cup {[name |-> fileName, data |-> data]}

\* generatedImages.forEach(img => zip.file(...)) on a new JSZip().
RECURSIVE ZipOf(_)
ZipOf(images) ==
  IF images = <<>> THEN {}
  ELSE LET img == images[Len(images)]
       IN ZipFile(ZipOf(SubSeq(images, 1, Len(images) - 1)),
                  FileName(img.expression), PayloadOf(img.base64))


\* ---------------------------------------------------------------- Init
Init ==
  /\ originalImage = NoImage
  /\ generatedImages = <<>>
  /\ isLoading = FALSE
  /\ error = NoError
  /\ progress = 0
  /\ inputFile = NoFile
  /\ reads = <<>>
  /\ launched = 0
  /\ batches = <<>>
  /\ caught = <<>>
  /\ download = <<>>
  /\ progressMonotone = TRUE

\* ------------------------------------------------------------- actions
\* file && file.type.startsWith('image/')
IsImageFileAnyType(file) == file # NoFile /\ file.type # <<>>
IsImageFile(file) == file # NoFile /\ StartsWith(file.type, ImagePrefix)

\* ImageUploader.handleFileChange: the change event of the file input, which
\* is rendered while there is no original image and fires when the selection
\* changes.  A file is read at most once at a time (a bound on the reads in
\* flight).
HandleFileChange(file) ==
  /\ originalImage = NoImage
  /\ file # inputFile
  /\ inputFile' = file
  /\ IF IsImageFile(file)
     THEN /\ \A k \in DOMAIN reads : reads[k].file # file
          /\ reads' = Append(reads, [file |-> file, stale |-> FALSE])
     ELSE UNCHANGED reads
  /\ UNCHANGED <<originalImage, generatedImages, isLoading, error, progress,
                 launched, batches, caught, download, progressMonotone>>

\* handleImageUpload
HandleImageUpload(image) ==
  /\ originalImage' = image
  /\ generatedImages' = <<>>
  /\ error' = NoError
  /\ caught' = <<>>
  /\ progress' = 0

\* The reads left in flight when the k-th has ended: the ones started
\* before it have been overtaken.
RECURSIVE Overtaken(_)
Overtaken(s) ==
  IF s = <<>> THEN <<>>
  ELSE <<[Head(s) EXCEPT !.stale = TRUE]>> \o Overtaken(Tail(s))

ReadsAfter(k) ==
  Overtaken(SubSeq(reads, 1, k - 1)) \o SubSeq(reads, k + 1, Len(reads))

\* reader.onloadend of the k-th read in flight: it fires when the read has
\* succeeded (result is the data URL) and when it has failed (result is
\* null).  With an original image set the uploader is not rendered any more.
ReaderLoadEnd(k, ok) ==
  /\ k \in DOMAIN reads
  /\ reads' = ReadsAfter(k)
  /\ HandleImageUpload([file |-> reads[k].file,
                        dataUrl |-> IF ok THEN ReadAsDataURL(reads[k].file)
                                    ELSE Null])
  /\ inputFile' = NoFile
  /\ UNCHANGED <<isLoading, launched, batches, download, progressMonotone>>

\* handleReset: the "Upload New Image" button, rendered while there is an
\* original image; the uploader is mounted again with an empty file input.
HandleReset ==
  /\ originalImage # NoImage
  /\ originalImage' = NoImage
  /\ generatedImages' = <<>>
  /\ error' = NoError
  /\ caught' = <<>>
  /\ progress' = 0
  /\ inputFile' = NoFile
  /\ UNCHANGED <<isLoading, reads, launched, batches, download,
                 progressMonotone>>

\* The closure variables and promises created by lines 73-85.  inFlight is
\* the set of catalog indices whose generateExpression call has not settled;
\* while the join is pending the other calls have fulfilled, and their
\* values ThenResult(b, i) are held by the promises array.  fulfilled is
\* history: the number of calls of the batch that have fulfilled.
NewBatch(image) ==
  [base64Data |-> PayloadOf(image.dataUrl),
   mimeType |-> image.file.type,
   completedCount |-> 0,
   fulfilled |-> 0,
   inFlight |-> Indices,
   join |-> JoinPending]

\* Once the join has rejected, the handler has returned and nothing reads
\* base64Data, mimeType, the promises array or the promises' values any
\* more: what is left of the batch are the calls still in flight and the
\* counter their .then callbacks share.
Orphaned(batch) ==
  [batch EXCEPT !.base64Data = Null, !.mimeType = <<>>, !.join = JoinRejected]

\* The live batches after batch b has become `batch`: a batch whose join has
\* settled and none of whose calls is in flight has no state left.
Settle(b, batch) ==
  IF batch.join # JoinPending /\ batch.inFlight = {}
  THEN [x \in DOMAIN batches \ {b} |-> batches[x]]
  ELSE [batches EXCEPT ![b] = batch]

\* The four state updates at the head of handleGenerateExpressions.
StartLoadingKeepsError ==
  /\ isLoading' = TRUE
  /\ UNCHANGED <<error, caught>>
  /\ generatedImages' = <<>>
  /\ progress' = 0
StartLoadingKeepsProgress ==
  /\ isLoading' = TRUE
  /\ error' = NoError
  /\ caught' = <<>>
  /\ generatedImages' = <<>>
  /\ UNCHANGED progress
StartLoading ==
  /\ isLoading' = TRUE
  /\ error' = NoError
  /\ caught' = <<>>
  /\ generatedImages' = <<>>
  /\ progress' = 0

\* handleGenerateExpressions up to its await: the Generate button, rendered
\* while there is an original image and disabled while isLoading.  When the
\* data URL is null, line 73 throws after the four state updates and nothing
\* else of the handler runs.
HandleGenerateExpressions ==
  /\ originalImage # NoImage
  /\ ~isLoading
  /\ StartLoading
  /\ IF originalImage.dataUrl = Null
     THEN UNCHANGED <<launched, batches, progressMonotone>>
     ELSE /\ launched < MaxBatches
          /\ launched' = launched + 1
          /\ batches' = batches @@ (launched + 1 :> NewBatch(originalImage))
          /\ progressMonotone' = TRUE
  /\ UNCHANGED <<originalImage, inputFile, reads, download>>

\* Some batch is between its start and its completion.
Running == \E b \in DOMAIN batches : batches[b].join = JoinPending

\* Promise.all fulfils when the last of its promises has fulfilled.
AllFulfilledIgnoresRejection(batch) == batch.inFlight = {}
AllFulfilled(batch) == batch.join = JoinPending /\ batch.inFlight = {}

\* completedCount++
CompletedCountKept(completedCount) == completedCount
CompletedCountPlusPlus(completedCount) == completedCount + 1

\* Call i of batch b resolves: the .then callback (lines 80-84) runs and,
\* when it was the last call of a batch none of whose calls has rejected,
\* Promise.all fulfils and the handler resumes at lines 88-89 and 93.
CallFulfils(b, i) ==
  /\ b \in DOMAIN batches
  /\ i \in batches[b].inFlight
  /\ LET count == CompletedCountPlusPlus(batches[b].completedCount)
         value == RoundedProgress(count, totalExpressions)
         after == [batches[b] EXCEPT !.inFlight = @ \ {i},
                                     !.completedCount = count,
                                     !.fulfilled = @ + 1]
     IN /\ progress' = value
        /\ IF AllFulfilled(after)
           THEN /\ batches' = Settle(b, [after EXCEPT !.join = JoinFulfilled])
                /\ generatedImages' = PromiseAllResults(b)
                /\ isLoading' = FALSE
           ELSE /\ batches' = Settle(b, after)
                /\ UNCHANGED <<generatedImages, isLoading>>
        /\ progressMonotone' =
             IF Running
             THEN /\ progressMonotone
                  /\ value > progress
                  /\ AllFulfilled(after) => value = 100
             ELSE progressMonotone
  /\ UNCHANGED <<originalImage, error, inputFile, reads, launched, caught,
                 download>>

\* Call i of batch b rejects with an error carrying `message`: the .then
\* callback is skipped; when it is the first rejection of the batch,
\* Promise.all rejects with it and the handler resumes at lines 90-93.
CallRejectsAfterAllSettle(b, i, message) ==
  /\ b \in DOMAIN batches
  /\ i \in batches[b].inFlight
  /\ LET after == [batches[b] EXCEPT !.inFlight = @ \ {i}]
     IN IF after.inFlight = {}
        THEN /\ batches' = Settle(b, Orphaned(after))
             /\ caught' = <<message>>
             /\ error' = <<ErrorText(message)>>
             /\ isLoading' = FALSE
        ELSE /\ batches' = [batches EXCEPT ![b] = after]
             /\ UNCHANGED <<caught, error, isLoading>>
  /\ UNCHANGED <<originalImage, generatedImages, progress, inputFile, reads,
                 launched, download, progressMonotone>>
CallRejects(b, i, message) ==
  /\ b \in DOMAIN batches
  /\ i \in batches[b].inFlight
  /\ LET after == [batches[b] EXCEPT !.inFlight = @ \ {i}]
     IN IF batches[b].join = JoinPending
        THEN /\ batches' = Settle(b, Orphaned(after))
             /\ caught' = <<message>>
             /\ error' = <<ErrorText(message)>>
             /\ isLoading' = FALSE
        ELSE /\ batches' = Settle(b, after)
             /\ UNCHANGED <<caught, error, isLoading>>
  /\ UNCHANGED <<originalImage, generatedImages, progress, inputFile, reads,
                 launched, download, progressMonotone>>

\* The Download All button is rendered while there are generated images and
\* no batch is loading.
DownloadOffered == generatedImages # <<>> /\ ~isLoading

\* handleDownloadAll: nothing happens on an empty list; otherwise the archive
\* is built and offered as character_expressions.zip.
HandleDownloadAllOfAnyList ==
  /\ download' = <<ZipOf(generatedImages)>>
  /\ UNCHANGED <<originalImage, generatedImages, isLoading, error,
                 progress, inputFile, reads, launched, batches, caught,
                 progressMonotone>>
HandleDownloadAll ==
  IF generatedImages = <<>>
  THEN UNCHANGED vars
  ELSE /\ download' = <<ZipOf(generatedImages)>>
       /\ UNCHANGED <<originalImage, generatedImages, isLoading, error,
                      progress, inputFile, reads, launched, batches, caught,
                      progressMonotone>>

\* The session: user events, ends of reads and settlements of calls.  The
\* export reads generatedImages and writes nothing but the download: it is
\* exercised by SpecExport below.
Next ==
  \/ \E file \in Files \cup {NoFile} : HandleFileChange(file)
  \/ \E k \in 1..Cardinality(Files), ok \in BOOLEAN : ReaderLoadEnd(k, ok)
  \/ HandleReset
  \/ HandleGenerateExpressions
  \/ \E b \in 1..MaxBatches, i \in Indices : CallFulfils(b, i)
  \/ \E b \in 1..MaxBatches, i \in Indices, message \in Messages :
       CallRejects(b, i, message)

Spec == Init /\ [][Next]_vars

\* The session when the service answers every call: a call in flight
\* eventually fulfils or rejects.
CallSettles(b, i) ==
  CallFulfils(b, i) \/ \E message \in Messages : CallRejects(b, i, message)

SpecFair ==
  Spec /\ \A b \in 1..MaxBatches : \A i \in Indices : WF_vars(CallSettles(b, i))


\* ------------------------------------------------------------- export
\* The export on its own, for lists of images with pairwise distinct labels
\* over a small alphabet (the catalog is configuration: any labels may be
\* in it).
ExportChars == {"a", " ", "(", ")"}

Labels == UNION {[1..n -> ExportChars] : n \in 0..MaxLabelLen}

\* Two labels of the kind the catalog holds.
SurprisedGasp ==
  <<"S", "u", "r", "p", "r", "i", "s", "e", "d", " ", "(", "G", "a", "s", "p", ")">>
Sad == <<"S", "a", "d">>
ExampleLabels == {SurprisedGasp, Sad}

ExportLists ==
  {l \in UNION {[1..n -> Labels \cup ExampleLabels] : n \in 0..MaxExport} :
     \A j, k \in DOMAIN l : j # k => l[j] # l[k]}

ExportImage(label, k) ==
  [expression |-> label, base64 |-> PngDataUrl(<<"payload", k>>)]

InitExport ==
  /\ originalImage = [file |-> PngFile, dataUrl |-> ReadAsDataURL(PngFile)]
  /\ generatedImages \in
       {[k \in DOMAIN l |-> ExportImage(l[k], k)] : l \in ExportLists}
  /\ isLoading = FALSE
  /\ error = NoError
  /\ progress = IF generatedImages = <<>> THEN 0 ELSE 100
  /\ inputFile = NoFile
  /\ reads = <<>>
  /\ launched = IF generatedImages = <<>> THEN 0 ELSE 1
  /\ batches = <<>>
  /\ caught = <<>>
  /\ download = <<>>
  /\ progressMonotone = TRUE

NextExport == HandleDownloadAll

SpecExport == InitExport /\ [][NextExport]_vars


\* ------------------------------------------------------------- claims
BatchIds == 1..MaxBatches

\* The response held by the k-th generated image.
ResponseOf(image) == image.base64[2]

\* Batch b completes in this step: its join was pending, and the step stores
\* a result list and leaves nothing of the batch.
Completes(b) ==
  /\ b \in DOMAIN batches
  /\ batches[b].join = JoinPending
  /\ b \notin DOMAIN batches'
  /\ generatedImages' # <<>>

\* Batch b fails in this step: its join was pending and is rejected now.
Fails(b) ==
  /\ b \in DOMAIN batches
  /\ batches[b].join = JoinPending
  /\ \/ b \in DOMAIN batches' /\ batches'[b].join = JoinRejected
     \/ b \notin DOMAIN batches' /\ generatedImages' = <<>>

\* A call of batch b rejects in this step after the batch has failed.
FailsAgain(b) ==
  /\ b \in DOMAIN batches
  /\ batches[b].join = JoinRejected
  /\ \/ b \notin DOMAIN batches'
     \/ /\ batches'[b].inFlight # batches[b].inFlight
        /\ batches'[b].completedCount = batches[b].completedCount
  /\ progress' = progress

GenerateStep == isLoading' /\ ~isLoading
UploadStep == Len(reads') < Len(reads)
ResetStep == originalImage # NoImage /\ originalImage' = NoImage

\* C1: when a batch all of whose calls succeeded completes, in whatever
\* order the calls completed, the stored list has one entry per catalog
\* entry, in catalog order, each holding the response to the call of this
\* batch for its own label, and no label twice.
C1_ResultsInCatalogOrder ==
  [][\A b \in BatchIds :
       Completes(b) =>
         /\ Len(generatedImages') = totalExpressions
         /\ \A k \in Indices :
              /\ generatedImages'[k].expression = EXPRESSIONS_TO_GENERATE[k]
              /\ generatedImages'[k].base64 =
                   <<"data:image/png;base64",
                     [batch |-> b,
                      request |-> <<batches[b].base64Data, batches[b].mimeType,
                                    EXPRESSIONS_TO_GENERATE[k]>>]>>
         /\ \A j, k \in Indices :
              j # k => generatedImages'[j].expression
                         # generatedImages'[k].expression]_vars

\* A batch has completed and its list is on display next to the image it
\* was generated from.
C1_Witness ==
  /\ Len(generatedImages) = totalExpressions
  /\ progress = 100
  /\ originalImage.dataUrl # Null
  /\ ResponseOf(generatedImages[1]).request[1] = originalImage.dataUrl[2]

\* C2: generatedImages is always empty or a complete list with one entry
\* per catalog label, and a list is only ever stored by a batch whose join
\* is still pending, that is, none of whose calls has failed.
C2_NoPartialList ==
  /\ [](\/ generatedImages = <<>>
        \/ /\ Len(generatedImages) = totalExpressions
           /\ \A k \in Indices :
                generatedImages[k].expression = EXPRESSIONS_TO_GENERATE[k])
  /\ [][(generatedImages' # generatedImages /\ generatedImages' # <<>>)
          => \E b \in BatchIds :
               /\ Completes(b)
               /\ batches[b].completedCount = totalExpressions - 1
               /\ Cardinality(batches[b].inFlight) = 1]_vars

\* The first batch has failed after one of its calls had succeeded: nothing
\* is stored.
C2_Witness ==
  /\ launched = 1
  /\ generatedImages = <<>>
  /\ error # NoError
  /\ progress > 0

\* C3: when a batch all of whose calls succeeded has completed, the values
\* its run wrote to the progress readout were strictly increasing, the
\* first above 0 and the last exactly 100.
C3_ProgressStrictlyIncreasing == generatedImages # <<>> => progressMonotone

\* C4: the progress readout is 100 only when every call of the batch
\* started last has succeeded: the list stored then holds the response of
\* each of its calls.
C4_HundredOnlyWhenAllSucceeded ==
  progress = 100 =>
    /\ ~isLoading
    /\ Len(generatedImages) = totalExpressions
    /\ \A k \in Indices : ResponseOf(generatedImages[k]).batch = launched

\* Progress is 100 while a call of an earlier, failed batch is in flight.
C4_Witness ==
  /\ progress = 100
  /\ launched = 2
  /\ \E b \in DOMAIN batches : batches[b].inFlight # {}

\* C5: a batch that fails leaves the loading flag false; starting a batch
\* sets progress to 0 and clears the error and the result list; and the
\* list a batch stores holds only responses to that batch's own calls.
C5_RetryStartsClean ==
  [][/\ \A b \in BatchIds : Fails(b) => ~isLoading'
     /\ GenerateStep =>
          progress' = 0 /\ error' = NoError /\ generatedImages' = <<>>
     /\ \A b \in BatchIds :
          Completes(b) =>
            \A k \in DOMAIN generatedImages' :
              ResponseOf(generatedImages'[k]).batch = b]_vars

\* The second batch has stored its list while a call of the failed first
\* batch is still in flight.
C5_Witness ==
  /\ launched = 2
  /\ generatedImages # <<>>
  /\ 1 \in DOMAIN batches
  /\ batches[1].join = JoinRejected

\* C6 as stated: the error recorded when a batch fails is exactly the
\* message of the call that failed first.
C6_ErrorIsExactlyTheMessage ==
  [][\A b \in BatchIds : Fails(b) => error' = caught']_vars

\* C6 as amended: the error recorded when a batch fails is the message of
\* the call that failed first when that message is not empty, and the fixed
\* text otherwise; later failures of the batch do not replace it; it stays
\* until the next generate, upload or reset.
C6_ErrorIsMessageOrFallback ==
  [][/\ \A b \in BatchIds :
          Fails(b) =>
            /\ caught' # <<>>
            /\ error' = IF caught'[1] # ""
                        THEN caught'
                        ELSE <<"An unknown error occurred during image generation.">>
     /\ \A b \in BatchIds :
          FailsAgain(b) => error' = error /\ caught' = caught
     /\ (error # NoError /\ error' # error)
          => GenerateStep \/ UploadStep \/ ResetStep]_vars

\* A batch has failed with a non-empty message, and another of its calls is
\* still in flight.
C6_Witness ==
  /\ error = <<"quota exceeded">>
  /\ \E b \in DOMAIN batches :
       batches[b].join = JoinRejected /\ batches[b].inFlight # {}

\* C7: the result of a read is disregarded when a read started after it has
\* ended already: the original image stays the one of the later selection.
C7_LastSelectedWins ==
  [][\A k \in DOMAIN reads :
       (/\ reads[k].stale
        /\ UploadStep
        /\ \A j \in DOMAIN reads' : reads'[j].file # reads[k].file)
         => originalImage' = originalImage]_vars

\* C8: the result list is non-empty only while there is an original image,
\* and then holds images generated from that image.
C8_ResultsBelongToCurrentImage ==
  generatedImages # <<>> =>
    /\ originalImage # NoImage
    /\ originalImage.dataUrl # Null
    /\ \A k \in DOMAIN generatedImages :
         ResponseOf(generatedImages[k]).request[1] = originalImage.dataUrl[2]

\* C9: selecting a file whose media type does not start with "image/"
\* starts no read and leaves the session state unchanged.
C9_NonImageSelectionChangesNothing ==
  [][(/\ inputFile' # inputFile
      /\ ~UploadStep
      /\ ~ResetStep
      /\ ~StartsWith(inputFile'.type, ImagePrefix))
       => UNCHANGED <<reads, originalImage, generatedImages, error, progress,
                      isLoading, launched, batches>>]_vars

\* A text file is selected while the read of an image file is in flight.
C9_Witness ==
  /\ inputFile = TxtFile
  /\ reads # <<>>
  /\ originalImage = NoImage

WithoutParens(label) == SelectSeq(label, LAMBDA c : c \notin {"(", ")"})

\* The positions of s that end a maximal run of white space or hold another
\* character: one position per character of the derived name.
NamePositions(s) ==
  {i \in DOMAIN s :
     s[i] \in {" ", "\t"} => (i = Len(s) \/ s[i + 1] \notin {" ", "\t"})}

\* The file name the export is to derive from a label.
ExpectedFileName(label) ==
  LET s == WithoutParens(label)
      at == NamePositions(s)
      pos(j) == CHOOSE i \in at : Cardinality({x \in at : x < i}) = j - 1
  IN [j \in 1..Cardinality(at) |->
        IF s[pos(j)] \in {" ", "\t"} THEN "_" ELSE s[pos(j)]]
     \o <<".", "p", "n", "g">>

ZipNames(zip) == {e.name : e \in zip}

\* C11: the archive holds, for every exported image, an entry whose name is
\* the image's label with every parenthesis removed, then every maximal run
\* of white space replaced by one underscore, followed by ".png", whatever
\* the image's position and payload; "Surprised (Gasp)" gives
\* "Surprised_Gasp.png" and "Sad" gives "Sad.png".
C11_FileNameDerivation ==
  download # <<>> =>
    \A k \in DOMAIN generatedImages :
      LET label == generatedImages[k].expression
      IN /\ ExpectedFileName(label) \in ZipNames(download[1])
         /\ label = SurprisedGasp =>
              <<"S", "u", "r", "p", "r", "i", "s", "e", "d", "_",
                "G", "a", "s", "p", ".", "p", "n", "g">>
                \in ZipNames(download[1])
         /\ label = Sad =>
              <<"S", "a", "d", ".", "p", "n", "g">> \in ZipNames(download[1])

\* An archive has been made of "Surprised (Gasp)" and of a label that is a
\* run of two spaces.
C11_Witness ==
  /\ download # <<>>
  /\ Len(generatedImages) = 2
  /\ generatedImages[1].expression = SurprisedGasp
  /\ generatedImages[2].expression = <<" ", " ">>
  /\ <<"_", ".", "p", "n", "g">> \in ZipNames(download[1])

\* C12: the export of an empty list makes no archive and offers no
\* download, and whenever the Download All button is offered the list is
\* not empty.
C12_EmptyExportIsNoOp ==
  /\ generatedImages = <<>> => download = <<>>
  /\ DownloadOffered => Len(generatedImages) >= 1
  /\ download # <<>> => download[1] # {}

\* The session holds an image and an empty list: the button is not offered,
\* and the handler has left the download as it was.
C12_Witness ==
  /\ generatedImages = <<>>
  /\ ~DownloadOffered
  /\ originalImage # NoImage
  /\ download = <<>>

\* v is x = 100 * completed / total rounded to the nearest integer, halves
\* up: v - 1/2 <= x < v + 1/2.
IsRounded(v, completed, total) ==
  /\ 2 * total * v - total <= 200 * completed
  /\ 200 * completed < 2 * total * v + total

\* C13: the counter of a batch starts at 0 and equals the number of the
\* batch's calls that have fulfilled; a step changes the counter of one
\* batch at most, by one, as one of its calls settles, and then sets the
\* progress readout to round(100 * completed / total); a step in which a
\* batch fails changes no counter and not the progress readout.
C13_CounterCountsSuccesses ==
  /\ []( /\ \A b \in DOMAIN batches :
             /\ batches[b].completedCount = batches[b].fulfilled
             /\ batches[b].completedCount
                  <= totalExpressions - Cardinality(batches[b].inFlight)
         /\ \A total \in 1..8 : \A completed \in 0..total :
              IsRounded(RoundedProgress(completed, total), completed, total))
  /\ [][ /\ \A b \in DOMAIN batches' \ DOMAIN batches :
             batches'[b].completedCount = 0
         /\ \A b \in DOMAIN batches \cap DOMAIN batches' :
             batches'[b].completedCount # batches[b].completedCount =>
               /\ batches'[b].completedCount = batches[b].completedCount + 1
               /\ Cardinality(batches'[b].inFlight)
                    = Cardinality(batches[b].inFlight) - 1
               /\ IsRounded(progress', batches'[b].completedCount,
                            totalExpressions)
               /\ \A c \in DOMAIN batches \cap DOMAIN batches' :
                    c # b =>
                      batches'[c].completedCount = batches[c].completedCount
         /\ \A b \in BatchIds :
             Completes(b) =>
               IsRounded(progress', batches[b].completedCount + 1,
                         totalExpressions)
         /\ \A b \in BatchIds :
             Fails(b) =>
               /\ progress' = progress
               /\ \A c \in DOMAIN batches \cap DOMAIN batches' :
                    batches'[c].completedCount = batches[c].completedCount
        ]_vars

\* A call of the first batch has failed and none has succeeded, and one
\* call of the second batch has succeeded: the counters are 0 and 1.
C13_Witness ==
  /\ DOMAIN batches = {1, 2}
  /\ batches[1].join = JoinRejected
  /\ batches[1].completedCount = 0
  /\ batches[2].join = JoinPending
  /\ batches[2].completedCount = 1
  /\ progress = RoundedProgress(1, totalExpressions)

\* C14: a step that starts a batch (with an original image present) issues
\* one call per catalog entry, all in flight together before any of them
\* has completed, with pairwise distinct labels and all with the payload and
\* media type of the image that is current at that moment; the image and
\* media type of a pending batch never change afterwards, whatever happens
\* to the original image; and no batch appears in any other step.
C14_OneCallPerCatalogEntry ==
  [][ /\ (GenerateStep /\ originalImage # NoImage) =>
           /\ launched' = launched + 1
           /\ DOMAIN batches' = DOMAIN batches \cup {launched'}
           /\ batches'[launched'].inFlight = 1..Len(EXPRESSIONS_TO_GENERATE)
           /\ batches'[launched'].completedCount = 0
           /\ batches'[launched'].join = JoinPending
           /\ originalImage.dataUrl # Null
           /\ batches'[launched'].base64Data = originalImage.dataUrl[2]
           /\ batches'[launched'].mimeType = originalImage.file.type
           /\ \A i, j \in batches'[launched'].inFlight :
                i # j => EXPRESSIONS_TO_GENERATE[i] # EXPRESSIONS_TO_GENERATE[j]
      /\ ~GenerateStep => DOMAIN batches' \subseteq DOMAIN batches
      /\ \A b \in DOMAIN batches \cap DOMAIN batches' :
           batches'[b].join = JoinPending =>
             /\ batches'[b].base64Data = batches[b].base64Data
             /\ batches'[b].mimeType = batches[b].mimeType
    ]_vars

\* C15: a step in which a call of a batch that has failed settles leaves
\* the progress readout, the result list, the error and the loading flag
\* unchanged.
C15_FailedBatchChangesNothing ==
  [][\A b \in DOMAIN batches :
       (/\ batches[b].join = JoinRejected
        /\ b \in DOMAIN batches' => batches'[b] # batches[b])
         => UNCHANGED <<progress, generatedImages, error, isLoading>>]_vars

\* The join of batch b is pending.
Pending(b) == b \in DOMAIN batches /\ batches[b].join = JoinPending
PendingNext(b) == b \in DOMAIN batches' /\ batches'[b].join = JoinPending

\* C16: while the join of a batch is pending the loading flag is true and
\* neither a result nor an error is set; a pending batch changes only as
\* one of its calls settles: a success short of the last leaves it pending,
\* the success of the last call, all others having succeeded, ends it with
\* the result, and a failure ends it at once with the error and the loading
\* flag false, whatever number of its calls are still in flight.  Nothing
\* else ends a pending batch.
C16_FailFastJoin ==
  /\ [](\A b \in DOMAIN batches :
          batches[b].join = JoinPending =>
            isLoading /\ generatedImages = <<>> /\ error = NoError)
  /\ [][\A b \in BatchIds :
         (Pending(b) /\ (b \in DOMAIN batches' => batches'[b] # batches[b]))
           => \/ /\ PendingNext(b)
                 /\ batches'[b].fulfilled = batches[b].fulfilled + 1
                 /\ batches'[b].inFlight # {}
                 /\ batches'[b].inFlight \subseteq batches[b].inFlight
                 /\ isLoading' /\ error' = NoError /\ generatedImages' = <<>>
              \/ /\ b \notin DOMAIN batches'
                 /\ batches[b].fulfilled = Len(EXPRESSIONS_TO_GENERATE) - 1
                 /\ Cardinality(batches[b].inFlight) = 1
                 /\ Len(generatedImages') = Len(EXPRESSIONS_TO_GENERATE)
                 /\ ~isLoading' /\ error' = NoError
              \/ /\ ~PendingNext(b)
                 /\ b \in DOMAIN batches' =>
                      /\ batches'[b].join = JoinRejected
                      /\ batches'[b].fulfilled = batches[b].fulfilled
                      /\ batches'[b].inFlight # {}
                 /\ ~isLoading' /\ error' # NoError /\ generatedImages' = <<>>
       ]_vars

\* The only batch has ended with the fixed error text while a call of it is
\* still in flight.
C16_Witness ==
  /\ launched = 1
  /\ ~isLoading
  /\ error = <<UnknownError>>
  /\ 1 \in DOMAIN batches
  /\ batches[1].join = JoinRejected
  /\ batches[1].inFlight # {}

\* C17: when every call eventually settles, the loading flag, once true,
\* eventually returns to false, and the step that sets it to false stores
\* exactly one outcome: a complete result list and no error, or an error
\* and no result.
C17_BatchEventuallyEnds ==
  /\ isLoading ~> ~isLoading
  /\ [][(isLoading /\ ~isLoading') =>
          \/ /\ Len(generatedImages') = Len(EXPRESSIONS_TO_GENERATE)
             /\ error' = NoError
          \/ /\ generatedImages' = <<>>
             /\ error' # NoError]_vars

\* C18: an error and a non-empty result list are never present together.
C18_ErrorAndResultsExclusive ==
  ~(error # NoError /\ generatedImages # <<>>)

\* The second batch has failed after a call of it had succeeded: its error
\* is shown and the list is empty.
C18_Witness ==
  /\ launched = 2
  /\ error # NoError
  /\ generatedImages = <<>>
  /\ progress > 0
  /\ batches = <<>>

\* C19: the loading flag is true exactly while the join of some batch is
\* pending; at most one batch is pending at a time, and none starts while
\* the flag is true; a step that uploads an image or resets the session
\* leaves the flag as it is.
C19_LoadingIffPending ==
  /\ [](isLoading <=> \E b \in DOMAIN batches : batches[b].join = JoinPending)
  /\ [](Cardinality({b \in DOMAIN batches : batches[b].join = JoinPending})
         <= 1)
  /\ [][ /\ isLoading => DOMAIN batches' \subseteq DOMAIN batches
         /\ (UploadStep \/ ResetStep) => isLoading' = isLoading
       ]_vars

====
